---- MODULE Spec2Model ----
(***************************************************************************)
(* A model of the lux ray tracer (src/src/main.rs): the scene's bounded    *)
(* lists, the ray-sphere intersection, the recursive tracer and the        *)
(* striped render calls of main.                                           *)
(*                                                                         *)
(* Numbers.  The program computes in f64.  The model computes in a binary  *)
(* floating-point format of the same kind with a short significand:        *)
(* a number is <<m, e>>, standing for m * 2^e, with m odd (or <<0, 0>>)    *)
(* and |m| < 2^Precision.  Every arithmetic operation rounds its exact     *)
(* result to the nearest representable number, ties to even, as the f64    *)
(* operations do; the exponent is unbounded, so nothing overflows or       *)
(* underflows.  A vector is a triple of such numbers.                      *)
(***************************************************************************)
EXTENDS Integers, Sequences, FiniteSets, TLC

\* Significand bits of the floating-point format.
Precision == 8

\* Framebuffer dimensions (ImageBuffer::new(RESX, RESY), scaled down).
Width == 2

Height == 7

\* Worker counts tried when the program is rendered again: 1 .. MaxWorkers.
MaxWorkers == 5

\* Calls of add_sphere and of add_light made beyond the capacity.
ExtraCalls == 2

-----------------------------------------------------------------------------
(* Integer helpers *)

Abs(n) == IF n < 0 THEN -n ELSE n

Sgn(n) == IF n < 0 THEN -1 ELSE IF n > 0 THEN 1 ELSE 0

Min(a, b) == IF a <= b THEN a ELSE b

RECURSIVE Pow2R(_)
Pow2R(n) == IF n = 0 THEN 1 ELSE 2 * Pow2R(n - 1)

Pow2Table == [n \in 0..30 |-> Pow2R(n)]

Pow2(n) == Pow2Table[n]

RECURSIVE BitLen(_)
BitLen(n) == IF n = 0 THEN 0 ELSE 1 + BitLen(n \div 2)

RECURSIVE ISqrtR(_, _, _)
ISqrtR(n, lo, hi) ==
    IF hi - lo <= 1 THEN lo
    ELSE LET mid == (lo + hi) \div 2
         IN  IF mid * mid <= n THEN ISqrtR(n, mid, hi) ELSE ISqrtR(n, lo, mid)

\* floor of the square root of n, 0 <= n < 2^31
ISqrt(n) == ISqrtR(n, 0, 46341)

-----------------------------------------------------------------------------------------------------------------------------------------------------
(* Floating-point numbers <<m, e>>.  A value that a computation uses more  *)
(* than once is passed on as a parameter, so that it is computed once.     *)

Max0(n) == IF n < 0 THEN 0 ELSE n

RECURSIVE FNorm(_, _)
FNorm(m, e) ==
    IF m = 0 THEN <<0, 0>>
    ELSE IF m % 2 = 0 THEN FNorm(m \div 2, e + 1)
    ELSE <<m, e>>

\* quotient q and remainder r of a division by 2h: q rounded to nearest,
\* ties to even
RoundNearestEven(q, r, h) ==
    IF r > h \/ (r = h /\ q % 2 = 1) THEN q + 1 ELSE q

\* a / p rounded to an integer, p a power of two >= 2
RoundShift(a, p) == RoundNearestEven(a \div p, a % p, p \div 2)

\* m * 2^e with the k low bits of m rounded away
FRoundK(m, e, k) ==
    IF k <= 0 THEN FNorm(m, e)
    ELSE FNorm(Sgn(m) * RoundShift(Abs(m), Pow2(k)), e + k)

\* m * 2^e rounded to Precision significant bits, to nearest, ties to even
FRound(m, e) == FRoundK(m, e, BitLen(Abs(m)) - Precision)

\* twice the quotient num / d, plus a sticky bit when the division is inexact
QuotSticky(num, d) == 2 * (num \div d) + (IF num % d = 0 THEN 0 ELSE 1)

FQuotS(n, d, e, s) ==
    FRound(Sgn(n) * Sgn(d) * QuotSticky(Abs(n) * Pow2(s), Abs(d)), e - s - 1)

\* (n / d) * 2^e rounded; d # 0.  The quotient is taken to at least
\* Precision + 2 bits.
FQuot(n, d, e) ==
    FQuotS(n, d, e, Max0(Precision + 2 + BitLen(Abs(d)) - BitLen(Abs(n))))

\* the decimal literal n/d of the source
FLit(n, d) == FQuot(n, d, 0)

\* `as f64` of an integer
FInt(n) == FRound(n, 0)

FZero == <<0, 0>>

FOne == <<1, 0>>

\* position of the leading bit: 2^(FExp - 1) <= |a| < 2^FExp
FExp(a) == a[2] + BitLen(Abs(a[1]))

FNeg(a) == <<-a[1], a[2]>>

\* a + b, both brought to the exponent e
FAddAt(a, b, e) == FRound(a[1] * Pow2(a[2] - e) + b[1] * Pow2(b[2] - e), e)

\* a + b, g = FExp(a) - FExp(b): an operand below a quarter of the other's
\* last place does not change it
FAddGap(a, b, g) ==
    IF g >= Precision + 3 THEN a
    ELSE IF -g >= Precision + 3 THEN b
    ELSE FAddAt(a, b, Min(a[2], b[2]))

FAdd(a, b) ==
    IF a[1] = 0 THEN b
    ELSE IF b[1] = 0 THEN a
    ELSE FAddGap(a, b, FExp(a) - FExp(b))

FSub(a, b) == FAdd(a, FNeg(b))

FMul(a, b) == FRound(a[1] * b[1], a[2] + b[2])

FDiv(a, b) == FQuot(a[1], b[1], a[2] - b[2])

\* the root r = ISqrt(n) of n, doubled, with a sticky bit when inexact
FSqrtR(n, r, e) == FRound(2 * r + (IF r * r = n THEN 0 ELSE 1), e)

FSqrtN(n, e) == FSqrtR(n, ISqrt(n), e)

\* the shift s >= s1 that makes e - s even
SqrtShift(e, s1) == IF (e - s1) % 2 = 0 THEN s1 ELSE s1 + 1

FSqrtS(a, s) == FSqrtN(a[1] * Pow2(s), ((a[2] - s) \div 2) - 1)

\* f64::sqrt of a >= 0
FSqrt(a) ==
    IF a[1] = 0 THEN FZero
    ELSE FSqrtS(a, SqrtShift(a[2], Max0(2 * Precision + 3 - BitLen(a[1]))))

FLt(a, b) == FSub(a, b)[1] < 0

FGt(a, b) == FSub(a, b)[1] > 0

FGe(a, b) == FSub(a, b)[1] >= 0

FLe(a, b) == FSub(a, b)[1] <= 0

I32MAX == 2147483647

\* `as i32` of an f64: truncation toward zero, saturating
FToI32(a) ==
    IF a[1] = 0 THEN 0
    ELSE IF FExp(a) > 31 THEN (IF a[1] > 0 THEN I32MAX ELSE -I32MAX - 1)
    ELSE IF a[2] >= 0 THEN a[1] * Pow2(a[2])
    ELSE IF -a[2] > 30 THEN 0
    ELSE Sgn(a[1]) * (Abs(a[1]) \div Pow2(-a[2]))

-----
(* Global constants (main.rs lines 15-19) *)

MAXPRIMCOUNT == 64

MAXLIGHTCOUNT == 10

MAXTHREADS == 4

-----------------------------------------------------------------------------
(* Vector3D: a triple <<x, y, z>>.  The methods of the source mutate self;  *)
(* each operator returns the value self holds after the call.              *)

v3d_new(x, y, z) == <<x, y, z>>

v3d_add(self, other_vector) ==
    <<FAdd(self[1], other_vector[1]),
      FAdd(self[2], other_vector[2]),
      FAdd(self[3], other_vector[3])>>

v3d_sub(self, other_vector) ==
    <<FSub(self[1], other_vector[1]),
      FSub(self[2], other_vector[2]),
      FSub(self[3], other_vector[3])>>

v3d_mul_scalar(self, scalar) ==
    <<FMul(self[1], scalar), FMul(self[2], scalar), FMul(self[3], scalar)>>

v3d_mul_v3d(self, other_vector) ==
    <<FMul(self[1], other_vector[1]),
      FMul(self[2], other_vector[2]),
      FMul(self[3], other_vector[3])>>

v3d_dot_mul(self, other_vector) ==
    FAdd(FAdd(FMul(self[1], other_vector[1]), FMul(self[2], other_vector[2])),
         FMul(self[3], other_vector[3]))

v3d_length(self) ==
    FSqrt(FAdd(FAdd(FMul(self[1], self[1]), FMul(self[2], self[2])),
               FMul(self[3], self[3])))

v3d_norm(self) == v3d_mul_scalar(self, FDiv(FOne, v3d_length(self)))

-----------------------------------------------------------------------------
(* Material, PrimSphere, Ray, Light *)

Material(specular, diffusive, reflective, color) ==
    [specular |-> specular, diffusive |-> diffusive,
     reflective |-> reflective, color |-> color]

PrimSphere(position, radius, m) ==
    [position |-> position, radius |-> radius, m |-> m]

Ray(direction, origin) == [direction |-> direction, origin |-> origin]

Light(position, color) == [position |-> position, color |-> color]

\* PrimSphere::normal
normal(self, pos) ==
    v3d_norm(v3d_mul_scalar(v3d_sub(pos, self.position), FDiv(FOne, self.radius)))

\* Fault seeded for C9: an inside hit reports the near root.
intersect_roots_near(dist, i1, i2) ==
    IF FGt(i2, FZero) /\ FLt(i1, FZero) THEN <<-1, i1>>
    ELSE IF FGt(i2, FZero) /\ FGe(i1, FZero) THEN <<1, i1>>
    ELSE <<0, dist>>

\* lines 185-191: the roots i1 <= i2 decide the result
intersect_roots(dist, i1, i2) ==
    IF FGt(i2, FZero) /\ FLt(i1, FZero) THEN <<-1, i2>>
    ELSE IF FGt(i2, FZero) /\ FGe(i1, FZero) THEN <<1, i1>>
    ELSE <<0, dist>>

\* lines 181-183: det is the square root of the discriminant
intersect_sqrt(dist, b, det) == intersect_roots(dist, FSub(b, det), FAdd(b, det))

\* line 180
intersect_det(dist, b, det) ==
    IF FGt(det, FZero) THEN intersect_sqrt(dist, b, FSqrt(det)) ELSE <<0, dist>>

\* line 176
intersect_b(dist, det_precalc, b) ==
    intersect_det(dist, b, FAdd(FMul(b, b), det_precalc))

\* lines 173-175
intersect_v(self, ray, dist, v_precalc) ==
    intersect_b(dist,
                FSub(FMul(self.radius, self.radius), v3d_dot_mul(v_precalc, v_precalc)),
                FNeg(v3d_dot_mul(v_precalc, ray.direction)))

\* PrimSphere::intersect: <<retval, the caller's dist after the call>>
intersect(self, ray, dist) ==
    intersect_v(self, ray, dist, v3d_sub(ray.origin, self.position))

-----------------------------------------------------------------------------
(* Literals of trace and render *)

\* trace, line 228: the initial (background) colour
BACKGROUND == v3d_new(FLit(2, 100), FLit(1, 10), FLit(17, 100))

\* trace, line 230
INITDIST == FLit(1000000000, 1)

\* trace, line 332
EPSILON == FLit(1, 10000)

\* trace, line 319: the reflection depth at which recursion stops
MAXDEPTH == 4

\* render, lines 359-362
camerapos == v3d_new(FZero, FZero, FInt(-5))

wx1 == FInt(-2)

wx2 == FInt(2)

wy1 == FLit(3, 2)

wy2 == FLit(-3, 2)

ZeroVec == <<FZero, FZero, FZero>>

-----------------------------------------------------------------------------
VARIABLES
    primitive_count,  \* GlobalSettings.primitive_count
    primitive_list,   \* GlobalSettings.primitive_list
    light_count,      \* GlobalSettings.light_count
    light_list,       \* GlobalSettings.light_list
    img,              \* GlobalSettings.img: <<x, y>> -> <<r, g, b, a>>
    threads,          \* the worker count the program is built with (MAXTHREADS)
    main_pc,          \* where main stands
    next_thread,      \* the thread_id of main's next render call
    rend,             \* the locals of the running render call
    stack,            \* the frames of the running trace calls, innermost last
    ret,              \* the value a trace call has just returned, if any
    writes,           \* history: per pixel, the put_pixel calls made on it
    sphere_calls,     \* history: number of add_sphere calls made
    light_calls,      \* history: number of add_light calls made
    run,              \* history: 1 for the first rendering, 2 for a repeated one
    ref_img,          \* history: the framebuffer of the first rendering
    probe             \* a single call of PrimSphere::intersect

vars == <<primitive_count, primitive_list, light_count, light_list, img,
          threads, main_pc, next_thread, rend, stack, ret, writes,
          sphere_calls, light_calls, run, ref_img, probe>>

scene_vars == <<primitive_count, primitive_list, light_count, light_list>>

Pixels == (0 .. Width - 1) \X (0 .. Height - 1)

\* ImageBuffer::new: every pixel zero
NewImage == [p \in Pixels |-> <<0, 0, 0, 0>>]

NoRender == [pc |-> "idle", thread_id |-> 0, dx |-> FZero, dy |-> FZero,
             sx |-> FZero, sy |-> FZero, x |-> 0, y |-> 0]

NoProbe == [pc |-> "off", self |-> PrimSphere(ZeroVec, FOne, Material(FZero, FZero, FZero, ZeroVec)),
            ray |-> Ray(ZeroVec, ZeroVec), dist |-> FZero, retval |-> 0]

-----------------------------------------------------------------------------
(* add_sphere and add_light *)

\* Fault seeded for C3: the capacity test is off by one.
add_sphere_inclusive(pos, rad, m, list, count) ==
    IF count <= MAXPRIMCOUNT
    THEN <<Append(list, PrimSphere(v3d_new(pos[1], pos[2], pos[3]), rad, m)), count + 1>>
    ELSE <<list, count>>

\* the list and the count after add_sphere(pos, rad, m, globals)
add_sphere(pos, rad, m, list, count) ==
    IF count < MAXPRIMCOUNT
    THEN <<Append(list, PrimSphere(v3d_new(pos[1], pos[2], pos[3]), rad, m)), count + 1>>
    ELSE <<list, count>>

\* the list and the count after add_light(pos, color, globals)
add_light(pos, color, list, count) ==
    IF count < MAXLIGHTCOUNT
    THEN <<Append(list, Light(v3d_new(pos[1], pos[2], pos[3]),
                              v3d_new(color[1], color[2], color[3]))), count + 1>>
    ELSE <<list, count>>

-----------------------------------------------------------------------------
(* trace: one frame per call.  A frame holds the locals of the call and,   *)
(* as history, what its last diffuse and specular steps added and how      *)
(* many recursive calls it has made.                                       *)

NewFrame(ray, refl_depth) ==
    [pc |-> "scan", ray |-> ray, refl_depth |-> refl_depth,
     color |-> BACKGROUND, dist |-> INITDIST, prim |-> <<>>,
     pi |-> ZeroVec, i |-> 0, l |-> ZeroVec, n |-> ZeroVec,
     diff |-> <<>>, spec |-> <<>>, calls |-> 0]

Top == stack[Len(stack)]

SetTop(f) == [stack EXCEPT ![Len(stack)] = f]

Pop == SubSeq(stack, 1, Len(stack) - 1)

\* lines 234-249: the loop over the primitives from index i on (1-based),
\* giving <<dist, prim>>; r is the result of intersect on primitive p
RECURSIVE scan_from(_, _, _, _)
RECURSIVE scan_step(_, _, _, _, _, _)
scan_step(i, ray, dist, prim, p, r) ==
    IF r[1] = 0 THEN scan_from(i + 1, ray, dist, prim)
    ELSE IF FLt(r[2], dist) THEN scan_from(i + 1, ray, r[2], <<p>>)
    ELSE scan_from(i + 1, ray, dist, prim)

scan_from(i, ray, dist, prim) ==
    IF i > primitive_count THEN <<dist, prim>>
    ELSE scan_step(i, ray, dist, prim, primitive_list[i],
                   intersect(primitive_list[i], ray, FZero))

\* lines 230-249
found(f, r) == [f EXCEPT !.dist = r[1], !.prim = r[2], !.pc = "match"]

trace_scan(f) == found(f, scan_from(1, f.ray, f.dist, f.prim))

\* lines 264-270
trace_hit(f) ==
    [f EXCEPT !.pi = v3d_add(v3d_mul_scalar(f.ray.direction, f.dist), f.ray.origin),
              !.i = 0, !.pc = "light"]

\* color after a block of the loop added add (nothing when add = <<>>)
accumulate(color, add) == IF add = <<>> THEN color ELSE v3d_add(color, add[1])

\* lines 283-291: the diffuse block for dot = l.n
diffuse_dot(prim, light_iter, dot) ==
    IF FGt(dot, FZero)
    THEN <<v3d_mul_scalar(v3d_mul_v3d(light_iter.color, prim.m.color),
                          FMul(dot, prim.m.diffusive))>>
    ELSE <<>>

\* lines 281-293: what the diffuse block adds for light_iter, <<>> if nothing
diffuse_add(prim, l, n, light_iter) ==
    IF FGt(prim.m.diffusive, FZero)
    THEN diffuse_dot(prim, light_iter, v3d_dot_mul(l, n))
    ELSE <<>>

diffused(f, l, n, add) ==
    [f EXCEPT !.l = l, !.n = n, !.diff = add, !.color = accumulate(f.color, add),
              !.pc = "specular"]

trace_diffuse_ln(f, light_iter, l, n) ==
    diffused(f, l, n, diffuse_add(f.prim[1], l, n, light_iter))

\* lines 273-293
trace_diffuse(f) ==
    trace_diffuse_ln(f, light_list[f.i + 1],
                     v3d_norm(v3d_sub(light_list[f.i + 1].position, f.pi)),
                     normal(f.prim[1], f.pi))

\* Fault seeded for C10: the reflection vector with the opposite sign.
specular_r_mirrored(l, n) ==
    v3d_sub(v3d_mul_scalar(n, FMul(v3d_dot_mul(l, n), FInt(2))), l)

\* lines 299-303: R = L - N * L.Dot(N) * 2
specular_r(l, n) ==
    v3d_sub(l, v3d_mul_scalar(n, FMul(v3d_dot_mul(l, n), FInt(2))))

\* lines 307-309: dot raised to the eighth power by three squarings
pow8(dot) == FMul(FMul(FMul(dot, dot), FMul(dot, dot)), FMul(FMul(dot, dot), FMul(dot, dot)))

\* lines 306-315: the specular block for dot = direction.R
specular_dot(prim, light_iter, dot) ==
    IF FGt(dot, FZero)
    THEN <<v3d_mul_scalar(light_iter.color, FMul(pow8(dot), prim.m.specular))>>
    ELSE <<>>

\* lines 295-316: what the specular block adds for light_iter, <<>> if nothing
specular_add(prim, direction, l, n, light_iter) ==
    IF FGt(prim.m.specular, FZero)
    THEN specular_dot(prim, light_iter, v3d_dot_mul(direction, specular_r(l, n)))
    ELSE <<>>

specular_done(f, add) ==
    [f EXCEPT !.spec = add, !.color = accumulate(f.color, add), !.pc = "reflect"]

\* lines 295-316
trace_specular(f) ==
    specular_done(f, specular_add(f.prim[1], f.ray.direction, f.l, f.n,
                                  light_list[f.i + 1]))

\* Fault seeded for C4: the depth test admits one more level.
reflects_deeper(prim, refl_depth) ==
    FGt(prim.m.reflective, FZero) /\ refl_depth < MAXDEPTH + 1

\* line 319: whether the reflection block runs
reflects(prim, refl_depth) ==
    FGt(prim.m.reflective, FZero) /\ refl_depth < MAXDEPTH

\* lines 331-338: the ray from newpi = pi + r * 0.0001 along r
offset_ray(r, pi) == Ray(r, v3d_add(v3d_mul_scalar(r, EPSILON), pi))

\* lines 323-338: the reflected ray tempr
reflected_ray(direction, n, pi) ==
    offset_ray(v3d_sub(direction,
                       v3d_mul_scalar(n, FMul(v3d_dot_mul(direction, n), FInt(2)))),
               pi)

\* lines 340-344: color after the recursive call returned rcol
reflect_add(color, rcol, prim) ==
    v3d_add(color, v3d_mul_v3d(v3d_mul_scalar(rcol, prim.m.reflective), prim.m.color))

-----
(* The steps of trace *)

TraceScan ==
    /\ stack # <<>>
    /\ Top.pc = "scan"
    /\ stack' = SetTop(trace_scan(Top))
    /\ UNCHANGED <<scene_vars, img, threads, main_pc, next_thread, rend, ret,
                   writes, sphere_calls, light_calls, run, ref_img, probe>>

\* Fault seeded for C5: on a miss trace drops the scene's last light.
TraceMissDropsLight ==
    /\ stack # <<>>
    /\ Top.pc = "match"
    /\ Top.prim = <<>>
    /\ stack' = Pop
    /\ ret' = <<Top>>
    /\ light_count' = IF light_count > 0 THEN light_count - 1 ELSE 0
    /\ light_list' = SubSeq(light_list, 1, Len(light_list) - 1)
    /\ UNCHANGED <<primitive_list, primitive_count, img, threads, main_pc, next_thread,
                   rend, writes, sphere_calls, light_calls, run, ref_img, probe>>

\* lines 251-262: no primitive was hit, the call returns the background
TraceMiss ==
    /\ stack # <<>>
    /\ Top.pc = "match"
    /\ Top.prim = <<>>
    /\ stack' = Pop
    /\ ret' = <<Top>>
    /\ UNCHANGED <<scene_vars, img, threads, main_pc, next_thread, rend,
                   writes, sphere_calls, light_calls, run, ref_img, probe>>

TraceHit ==
    /\ stack # <<>>
    /\ Top.pc = "match"
    /\ Top.prim # <<>>
    /\ stack' = SetTop(trace_hit(Top))
    /\ UNCHANGED <<scene_vars, img, threads, main_pc, next_thread, rend, ret,
                   writes, sphere_calls, light_calls, run, ref_img, probe>>

TraceDiffuse ==
    /\ stack # <<>>
    /\ Top.pc = "light"
    /\ Top.i < light_count
    /\ stack' = SetTop(trace_diffuse(Top))
    /\ UNCHANGED <<scene_vars, img, threads, main_pc, next_thread, rend, ret,
                   writes, sphere_calls, light_calls, run, ref_img, probe>>

TraceSpecular ==
    /\ stack # <<>>
    /\ Top.pc = "specular"
    /\ stack' = SetTop(trace_specular(Top))
    /\ UNCHANGED <<scene_vars, img, threads, main_pc, next_thread, rend, ret,
                   writes, sphere_calls, light_calls, run, ref_img, probe>>

\* lines 318-340: the recursive call, made inside the loop over the lights
TraceReflectCall ==
    /\ stack # <<>>
    /\ Top.pc = "reflect"
    /\ reflects(Top.prim[1], Top.refl_depth)
    /\ stack' = Append(SetTop([Top EXCEPT !.pc = "await", !.calls = @ + 1]),
                       NewFrame(reflected_ray(Top.ray.direction, Top.n, Top.pi),
                                Top.refl_depth + 1))
    /\ UNCHANGED <<scene_vars, img, threads, main_pc, next_thread, rend, ret,
                   writes, sphere_calls, light_calls, run, ref_img, probe>>

\* line 319 false: on to the next light
TraceReflectSkip ==
    /\ stack # <<>>
    /\ Top.pc = "reflect"
    /\ ~reflects(Top.prim[1], Top.refl_depth)
    /\ stack' = SetTop([Top EXCEPT !.i = @ + 1, !.pc = "light"])
    /\ UNCHANGED <<scene_vars, img, threads, main_pc, next_thread, rend, ret,
                   writes, sphere_calls, light_calls, run, ref_img, probe>>

\* lines 340-345: the recursive call has returned
TraceReflected ==
    /\ stack # <<>>
    /\ Top.pc = "await"
    /\ ret # <<>>
    /\ stack' = SetTop([Top EXCEPT !.color = reflect_add(Top.color, ret[1].color, Top.prim[1]),
                                   !.i = @ + 1, !.pc = "light"])
    /\ ret' = <<>>
    /\ UNCHANGED <<scene_vars, img, threads, main_pc, next_thread, rend,
                   writes, sphere_calls, light_calls, run, ref_img, probe>>

\* lines 348-354: the loop over the lights is over, the call returns color
TraceReturn ==
    /\ stack # <<>>
    /\ Top.pc = "light"
    /\ Top.i >= light_count
    /\ stack' = Pop
    /\ ret' = <<Top>>
    /\ UNCHANGED <<scene_vars, img, threads, main_pc, next_thread, rend,
                   writes, sphere_calls, light_calls, run, ref_img, probe>>

-----------------------------------------------------------------------------
(* render *)

\* lines 364-367: the locals of render(thread_id) before its loop
render_locals(thread_id, dx, dy) ==
    [pc |-> "row", thread_id |-> thread_id, dx |-> dx, dy |-> dy,
     sx |-> FZero, sy |-> FAdd(wy1, FMul(dy, FInt(thread_id))),
     x |-> 0, y |-> thread_id]

\* lines 359-367
render_enter(thread_id) ==
    render_locals(thread_id, FDiv(FSub(wx2, wx1), FInt(Width)),
                  FDiv(FSub(wy2, wy1), FInt(Height)))

\* lines 374-382: the ray through the viewport point (sx, sy)
camera_ray(sx, sy) ==
    Ray(v3d_norm(v3d_sub(v3d_new(sx, sy, FZero), camerapos)), camerapos)

\* Fault seeded for C6: the arm for negative values is missing.
clamp_upper_only(r) ==
    IF r > 255 THEN 255
    ELSE r % 256

\* lines 389-407: one channel of the pixel; `r as u8` wraps modulo 256
clamp(r) ==
    IF r > 255 THEN 255
    ELSE IF r < 0 THEN 0
    ELSE r % 256

\* lines 389-391
channel(c) == clamp(FToI32(FMul(c, FInt(255))))

\* lines 389-409
to_rgba(color) == <<channel(color[1]), channel(color[2]), channel(color[3]), 255>>

\* line 410: the framebuffer after put_pixel(x, y, cl)
put_pixel(image, x, y, cl) == [image EXCEPT ![<<x, y>>] = cl]

\* Fault seeded for C1: the row loop steps by one instead of by MAXTHREADS.
next_row_unit_step(y) == y + 1

\* line 370: the row after y in the stripe of a worker
next_row(y) == y + threads

\* line 415
next_sy(sy, dy) == FAdd(sy, FMul(dy, FInt(threads)))

\* lines 507-510: main calls render(0), render(1), ... one after the other
MainRender ==
    /\ main_pc = "render"
    /\ rend.pc = "idle"
    /\ next_thread < threads
    /\ rend' = render_enter(next_thread)
    /\ next_thread' = next_thread + 1
    /\ UNCHANGED <<scene_vars, img, threads, main_pc, stack, ret, writes,
                   sphere_calls, light_calls, run, ref_img, probe>>

\* lines 370-371: the next row of the stripe begins
RenderRow ==
    /\ rend.pc = "row"
    /\ rend.y < Height
    /\ rend' = [rend EXCEPT !.sx = wx1, !.x = 0, !.pc = "pixel"]
    /\ UNCHANGED <<scene_vars, img, threads, main_pc, next_thread, stack, ret,
                   writes, sphere_calls, light_calls, run, ref_img, probe>>

\* lines 373-385: the ray of pixel (x, y) is spawned and trace is called
RenderSpawn ==
    /\ rend.pc = "pixel"
    /\ rend.x < Width
    /\ stack' = <<NewFrame(camera_ray(rend.sx, rend.sy), 0)>>
    /\ rend' = [rend EXCEPT !.pc = "tracing"]
    /\ UNCHANGED <<scene_vars, img, threads, main_pc, next_thread, ret,
                   writes, sphere_calls, light_calls, run, ref_img, probe>>

\* lines 385-412: trace has returned, the pixel is written
RenderPutPixel ==
    /\ rend.pc = "tracing"
    /\ stack = <<>>
    /\ ret # <<>>
    /\ img' = put_pixel(img, rend.x, rend.y, to_rgba(ret[1].color))
    /\ writes' = [writes EXCEPT ![<<rend.x, rend.y>>] =
                     Append(@, [by |-> rend.thread_id, color |-> ret[1].color])]
    /\ rend' = [rend EXCEPT !.sx = FAdd(rend.sx, rend.dx), !.x = @ + 1, !.pc = "pixel"]
    /\ ret' = <<>>
    /\ UNCHANGED <<scene_vars, threads, main_pc, next_thread, stack,
                   sphere_calls, light_calls, run, ref_img, probe>>

\* line 415: the row is complete
RenderRowEnd ==
    /\ rend.pc = "pixel"
    /\ rend.x >= Width
    /\ rend' = [rend EXCEPT !.sy = next_sy(rend.sy, rend.dy), !.y = next_row(rend.y),
                            !.pc = "row"]
    /\ UNCHANGED <<scene_vars, img, threads, main_pc, next_thread, stack, ret,
                   writes, sphere_calls, light_calls, run, ref_img, probe>>

\* line 417: the stripe is complete, render returns to main
RenderReturn ==
    /\ rend.pc = "row"
    /\ rend.y >= Height
    /\ rend' = NoRender
    /\ UNCHANGED <<scene_vars, img, threads, main_pc, next_thread, stack, ret,
                   writes, sphere_calls, light_calls, run, ref_img, probe>>

\* lines 512-513: every render call has returned, the framebuffer is saved
MainSave ==
    /\ main_pc = "render"
    /\ rend.pc = "idle"
    /\ next_thread >= threads
    /\ main_pc' = "done"
    /\ UNCHANGED <<scene_vars, img, threads, next_thread, rend, stack, ret,
                   writes, sphere_calls, light_calls, run, ref_img, probe>>

-----------------------------------------------------------------------------
(* Scenes.  main builds one fixed scene of 54 spheres and one light; the   *)
(* renderer is checked on a family of small scenes built the same way,     *)
(* with the materials and the light of main among them.                    *)

\* the vector (x/d, y/d, z/d)
vec(x, y, z, d) == v3d_new(FLit(x, d), FLit(y, d), FLit(z, d))

\* main, lines 436-455
mirror == Material(FLit(3, 10), FLit(2, 10), FLit(8, 10), vec(6, 6, 6, 10))

green == Material(FLit(1, 10), FLit(3, 10), FLit(4, 10), vec(1, 10, 1, 10))

red == Material(FLit(1, 10), FLit(3, 10), FLit(4, 10), vec(10, 1, 1, 10))

\* a white material that only scatters, and one of negative colour whose
\* specular and reflective coefficients are negative
matte == Material(FZero, FOne, FZero, vec(1, 1, 1, 1))

dark == Material(FLit(-1, 2), FOne, FLit(-1, 2), vec(-1, -1, -1, 1))

\* main, lines 499-501
main_light == <<vec(0, 0, 0, 1), vec(2, 2, 2, 1)>>

Sph(pos, rad, m) == [pos |-> pos, rad |-> rad, m |-> m]

Scenes == <<
    \* 1: no primitive
    [spheres |-> <<>>, lights |-> <<main_light>>],
    \* 2: the materials and the light of main
    [spheres |-> <<Sph(vec(0, 1, 4, 2), FLit(3, 2), green),
                   Sph(vec(-6, 2, 5, 2), FLit(3, 2), mirror),
                   Sph(vec(0, -3, 2, 1), FOne, red)>>,
     lights |-> <<main_light>>],
    \* 3: the camera inside a mirrored sphere
    [spheres |-> <<Sph(vec(0, 0, -5, 1), FInt(2), mirror)>>,
     lights |-> <<<<vec(0, 0, -4, 1), vec(1, 1, 1, 1)>>>>],
    \* 4: two coincident spheres and a nearer one listed after them
    [spheres |-> <<Sph(vec(0, 0, 3, 1), FInt(2), red),
                   Sph(vec(0, 0, 3, 1), FInt(2), green),
                   Sph(vec(0, 0, 1, 1), FLit(1, 2), matte)>>,
     lights |-> <<main_light>>],
    \* 5: a sphere farther away than the initial dist of trace
    [spheres |-> <<Sph(<<FZero, FZero, <<3, 30>>>>, <<1, 30>>, red)>>,
     lights |-> <<main_light>>],
    \* 6: a mirror and two lights
    [spheres |-> <<Sph(vec(0, 0, 3, 1), FInt(2), mirror)>>,
     lights |-> <<main_light, <<vec(3, 3, -2, 1), vec(1, 1, 1, 1)>>>>],
    \* 7: a mirror and no light
    [spheres |-> <<Sph(vec(0, 0, 3, 1), FInt(2), mirror)>>,
     lights |-> <<>>],
    \* 8: coefficients that are not positive, a negative colour and a light
    \*    behind the spheres
    [spheres |-> <<Sph(vec(0, 1, 3, 1), FInt(1), dark),
                   Sph(vec(0, -1, 3, 1), FInt(1), matte)>>,
     lights |-> <<main_light, <<vec(0, 0, 10, 1), vec(1, 1, 1, 1)>>>>]
>>

\* the primitive list and count after add_sphere was called on each of args
RECURSIVE build_spheres(_, _)
build_spheres(args, r) ==
    IF args = <<>> THEN r
    ELSE build_spheres(Tail(args),
                       add_sphere(Head(args).pos, Head(args).rad, Head(args).m, r[1], r[2]))

RECURSIVE build_lights(_, _)
build_lights(args, r) ==
    IF args = <<>> THEN r
    ELSE build_lights(Tail(args), add_light(Head(args)[1], Head(args)[2], r[1], r[2]))

\* the state of main once scene sc is built
SceneBuilt(sc, ps, ls) ==
    /\ primitive_list = ps[1]
    /\ primitive_count = ps[2]
    /\ light_list = ls[1]
    /\ light_count = ls[2]
    /\ sphere_calls = Len(sc.spheres)
    /\ light_calls = Len(sc.lights)

-----------------------------------------------------------------------------
(* The program: main has built a scene and goes on to render it *)

Init ==
    /\ \E s \in 1 .. Len(Scenes) :
           SceneBuilt(Scenes[s], build_spheres(Scenes[s].spheres, <<<<>>, 0>>),
                      build_lights(Scenes[s].lights, <<<<>>, 0>>))
    /\ img = NewImage
    /\ threads = MAXTHREADS
    /\ main_pc = "render"
    /\ next_thread = 0
    /\ rend = NoRender
    /\ stack = <<>>
    /\ ret = <<>>
    /\ writes = [p \in Pixels |-> <<>>]
    /\ run = 1
    /\ ref_img = NewImage
    /\ probe = NoProbe

Next ==
    \/ MainRender
    \/ RenderRow
    \/ RenderSpawn
    \/ TraceScan
    \/ TraceMiss
    \/ TraceHit
    \/ TraceDiffuse
    \/ TraceSpecular
    \/ TraceReflectCall
    \/ TraceReflectSkip
    \/ TraceReflected
    \/ TraceReturn
    \/ RenderPutPixel
    \/ RenderRowEnd
    \/ RenderReturn
    \/ MainSave

Spec == Init /\ [][Next]_vars

\* The program rendered once more, built with another worker count: the
\* first framebuffer is kept and a fresh one is rendered from the same scene.
Repartition ==
    /\ main_pc = "done"
    /\ run = 1
    /\ \E n \in 1 .. MaxWorkers : threads' = n
    /\ ref_img' = img
    /\ img' = NewImage
    /\ writes' = [p \in Pixels |-> <<>>]
    /\ main_pc' = "render"
    /\ next_thread' = 0
    /\ run' = 2
    /\ UNCHANGED <<scene_vars, rend, stack, ret, sphere_calls, light_calls, probe>>

NextRepartition ==
    \/ Next
    \/ Repartition

SpecRepartition == Init /\ [][NextRepartition]_vars

-----------------------------------------------------------------------------
(* Scene setup: add_sphere and add_light called any number of times, in    *)
(* any order, from the empty scene.  The k-th call of each passes an       *)
(* argument that no other call passes.                                     *)

sphere_arg(k) ==
    Sph(v3d_new(FInt(k), FZero, FZero), FLit(1, 4),
        IF k % 3 = 0 THEN mirror ELSE IF k % 3 = 1 THEN green ELSE red)

light_arg(k) == <<v3d_new(FZero, FInt(k), FZero), vec(2, 2, 2, 1)>>

InitScene ==
    /\ primitive_list = <<>>
    /\ primitive_count = 0
    /\ light_list = <<>>
    /\ light_count = 0
    /\ sphere_calls = 0
    /\ light_calls = 0
    /\ img = NewImage
    /\ threads = MAXTHREADS
    /\ main_pc = "scene"
    /\ next_thread = 0
    /\ rend = NoRender
    /\ stack = <<>>
    /\ ret = <<>>
    /\ writes = [p \in Pixels |-> <<>>]
    /\ run = 1
    /\ ref_img = NewImage
    /\ probe = NoProbe

\* the scene after add_sphere returned r
SphereAdded(r) ==
    /\ primitive_list' = r[1]
    /\ primitive_count' = r[2]

AddSphere ==
    /\ main_pc = "scene"
    /\ sphere_calls < MAXPRIMCOUNT + ExtraCalls
    /\ sphere_calls' = sphere_calls + 1
    /\ SphereAdded(add_sphere(sphere_arg(sphere_calls + 1).pos,
                              sphere_arg(sphere_calls + 1).rad,
                              sphere_arg(sphere_calls + 1).m,
                              primitive_list, primitive_count))
    /\ UNCHANGED <<light_list, light_count, light_calls, img, threads, main_pc,
                   next_thread, rend, stack, ret, writes, run, ref_img, probe>>

\* the scene after add_light returned r
LightAdded(r) ==
    /\ light_list' = r[1]
    /\ light_count' = r[2]

AddLight ==
    /\ main_pc = "scene"
    /\ light_calls < MAXLIGHTCOUNT + ExtraCalls
    /\ light_calls' = light_calls + 1
    /\ LightAdded(add_light(light_arg(light_calls + 1)[1], light_arg(light_calls + 1)[2],
                            light_list, light_count))
    /\ UNCHANGED <<primitive_list, primitive_count, sphere_calls, img, threads,
                   main_pc, next_thread, rend, stack, ret, writes, run, ref_img, probe>>

NextScene ==
    \/ AddSphere
    \/ AddLight

SpecScene == InitScene /\ [][NextScene]_vars

-----------------------------------------------------------------------------
(* PrimSphere::intersect called once, on a ray and a sphere drawn from      *)
(* small sets, with the caller's dist holding PROBE_DIST before the call.   *)

ProbeOrigins ==
    {vec(0, 0, -5, 1), vec(0, 0, 0, 1), vec(0, 0, 1, 1), vec(2, 0, 0, 1),
     vec(0, 3, 3, 1), vec(1, 1, 7, 2)}

ProbeDirections ==
    {v3d_norm(vec(0, 0, 1, 1)), v3d_norm(vec(0, 0, -1, 1)), v3d_norm(vec(1, 0, 0, 1)),
     v3d_norm(vec(-1, 0, 0, 1)), v3d_norm(vec(0, 1, 0, 1)), v3d_norm(vec(0, -1, 0, 1)),
     v3d_norm(vec(1, 0, 1, 1)), v3d_norm(vec(0, -1, -1, 1)), v3d_norm(vec(-2, 1, 5, 1)),
     v3d_norm(vec(1, 2, -3, 1))}

ProbeSpheres ==
    {PrimSphere(vec(0, 0, 0, 1), FOne, matte),
     PrimSphere(vec(0, 0, 3, 1), FInt(2), mirror),
     PrimSphere(vec(1, 0, 0, 1), FLit(1, 2), green)}

ProbeDist == FInt(7)

InitIntersect ==
    /\ \E o \in ProbeOrigins, d \in ProbeDirections, p \in ProbeSpheres :
           probe = [pc |-> "call", self |-> p, ray |-> Ray(d, o),
                    dist |-> ProbeDist, retval |-> 0]
    /\ primitive_list = <<>>
    /\ primitive_count = 0
    /\ light_list = <<>>
    /\ light_count = 0
    /\ sphere_calls = 0
    /\ light_calls = 0
    /\ img = NewImage
    /\ threads = MAXTHREADS
    /\ main_pc = "probe"
    /\ next_thread = 0
    /\ rend = NoRender
    /\ stack = <<>>
    /\ ret = <<>>
    /\ writes = [p \in Pixels |-> <<>>]
    /\ run = 1
    /\ ref_img = NewImage

\* the probe after intersect returned r
Intersected(r) == probe' = [probe EXCEPT !.retval = r[1], !.dist = r[2], !.pc = "done"]

Intersect ==
    /\ probe.pc = "call"
    /\ Intersected(intersect(probe.self, probe.ray, probe.dist))
    /\ UNCHANGED <<scene_vars, img, threads, main_pc, next_thread, rend, stack,
                   ret, writes, sphere_calls, light_calls, run, ref_img>>

SpecIntersect == InitIntersect /\ [][Intersect]_vars

-----------------------------------------------------------------------------
(* Properties *)

\* the workers that have returned from render
Returned(w) == w < next_thread /\ (rend.pc = "idle" \/ rend.thread_id # w)

\* C1: render(w) writes exactly the pixels of the rows y with w <= y < height
\* and y mod N = w: every write to a pixel of row y is made by worker y mod N,
\* no pixel is written twice, once render(w) has returned every pixel of its
\* rows has been written, and when the framebuffer is saved every pixel has
\* been written exactly once, by worker y mod N.
C1_StripeOwnership ==
    /\ threads = 4
    /\ \A p \in Pixels :
        /\ Len(writes[p]) <= 1
        /\ \A k \in 1 .. Len(writes[p]) :
               writes[p][k].by = p[2] % 4 /\ writes[p][k].by <= p[2]
        /\ Returned(p[2] % 4) => Len(writes[p]) = 1
        /\ main_pc = "done" => Len(writes[p]) = 1 /\ writes[p][1].by = p[2] % 4

\* C1 happens: the framebuffer is saved and a worker has written a second
\* row of its stripe.
C1_Witness ==
    /\ main_pc = "done"
    /\ \E p \in Pixels : p[2] >= 4 /\ writes[p] # <<>> /\ writes[p][1].by = p[2] - 4

\* C2: rendering the same scene with any worker count N >= 1 gives the image
\* that MAXTHREADS workers give, pixel for pixel.
C2_SameImage == (run = 2 /\ main_pc = "done") => img = ref_img

\* the frames of the calls of trace in progress and of the call that returned last
Frames == {stack[k] : k \in 1 .. Len(stack)} \cup {ret[k] : k \in 1 .. Len(ret)}

\* the frame has found that its ray misses all primitives
Missed(f) == f.pc # "scan" /\ f.prim = <<>>

\* from trace(ray, 0) the k-th nested call runs at depth k - 1, never above 4;
\* a call at depth 4 and a call whose ray misses all primitives make no
\* recursive call
C4_DepthBounded ==
    /\ Len(stack) <= 5
    /\ \A k \in 1 .. Len(stack) : stack[k].refl_depth = k - 1
    /\ \A f \in Frames :
        /\ f.refl_depth <= 4
        /\ f.refl_depth = 4 => f.calls = 0
        /\ Missed(f) => f.calls = 0

\* the steps a call of trace entered at depth d takes at most, the calls it
\* makes included: the scan, the match, the return and, for every light, the
\* diffuse block, the specular block and the reflection block
RECURSIVE FullCall(_)
FullCall(d) == 3 + light_count * (IF d < 4 THEN 4 + FullCall(d + 1) ELSE 3)

PerLight(d) == IF d < 4 THEN 4 + FullCall(d + 1) ELSE 3

\* the steps the call of frame f has left at most, the calls in progress excluded
Remaining(f) ==
    IF f.pc = "scan" THEN FullCall(f.refl_depth)
    ELSE IF f.pc = "match" THEN FullCall(f.refl_depth) - 1
    ELSE IF f.pc = "light" THEN (light_count - f.i) * PerLight(f.refl_depth) + 1
    ELSE IF f.pc = "specular" THEN (light_count - f.i) * PerLight(f.refl_depth)
    ELSE IF f.pc = "reflect" THEN (light_count - f.i) * PerLight(f.refl_depth) - 1
    ELSE (light_count - f.i - 1) * PerLight(f.refl_depth) + 2

RECURSIVE RankOf(_, _)
RankOf(s, k) == IF k = 0 THEN 0 ELSE Remaining(s[k]) + RankOf(s, k - 1)

\* the steps the calls of trace in progress have left at most
Rank == RankOf(stack, Len(stack))

\* a call of trace in progress can take a step
CanStep ==
    stack # <<>> =>
        \/ Top.pc \in {"scan", "match", "light", "specular", "reflect"}
        \/ Top.pc = "await" /\ ret # <<>>

\* C4: recursive reflection terminates: trace is never invoked at a depth
\* above 4, a call at depth 4 and a call whose ray misses make no recursive
\* call, and every top-level call of trace returns: while a call is in
\* progress a step is always possible, every step uses up at least one of
\* the finitely many steps left, and none are left only when all calls have
\* returned.
C4_Terminates ==
    [][/\ C4_DepthBounded /\ C4_DepthBounded'
       /\ CanStep /\ CanStep'
       /\ Rank >= 0 /\ (Rank = 0 <=> stack = <<>>)
       /\ Rank' >= 0 /\ (Rank' = 0 <=> stack' = <<>>)
       /\ stack # <<>> => Rank' < Rank]_vars

\* C4 happens: a call at depth 4 that hit a reflective sphere is at its
\* reflection test.
C4_Witness ==
    /\ Len(stack) = 5
    /\ Top.refl_depth = 4
    /\ Top.pc = "reflect"
    /\ FGt(Top.prim[1].m.reflective, FZero)

\* C5: no step of render or of trace changes primitive_list, primitive_count,
\* light_list or light_count; no step taken while a call of trace is in
\* progress changes the framebuffer; and a step of render that changes the
\* framebuffer changes the one pixel render is at, in its own stripe.
C5_SceneReadOnly ==
    [][/\ UNCHANGED scene_vars
       /\ (stack # <<>> \/ stack' # <<>>) => img' = img
       /\ img' # img =>
            /\ rend.pc = "tracing"
            /\ rend.y % threads = rend.thread_id
            /\ \A p \in Pixels \ {<<rend.x, rend.y>>} : img'[p] = img[p]]_vars

\* C5 happens: in a scene with spheres and lights a recursive call of trace is
\* in progress after pixels have been written.
C5_Witness ==
    /\ Len(stack) >= 2
    /\ primitive_count > 0
    /\ light_count > 0
    /\ \E p \in Pixels : writes[p] # <<>>

\* the scaled value of a colour component, truncated to an integer
Scaled(c) == FToI32(FMul(c, FInt(255)))

\* the channel value C6 prescribes for a scaled value
Clamped(v) == IF v > 255 THEN 255 ELSE IF v < 0 THEN 0 ELSE v

\* C6: every written pixel has its R, G and B channels in 0 .. 255 and alpha
\* 255; a channel whose scaled value is above 255 is 255, one below 0 is 0,
\* any other is the truncated scaled value.
C6_Clamped ==
    \A p \in Pixels : writes[p] # <<>> =>
        /\ \A c \in 1 .. 3 :
            /\ img[p][c] \in 0 .. 255
            /\ img[p][c] = Clamped(Scaled(writes[p][Len(writes[p])].color[c]))
        /\ img[p][4] = 255

\* C6 happens: one written pixel has a channel scaled above 255, another one
\* a channel scaled below 0, another one a channel in between.
C6_Witness ==
    /\ \E p \in Pixels : writes[p] # <<>> /\ Scaled(writes[p][1].color[1]) > 255
    /\ \E p \in Pixels : writes[p] # <<>> /\ Scaled(writes[p][1].color[1]) < 0
    /\ \E p \in Pixels : writes[p] # <<>> /\ Scaled(writes[p][1].color[1]) \in 1 .. 254

\* C3: after any sequence of add_sphere and add_light calls from the empty
\* scene, primitive_count = len(primitive_list) = min(calls of add_sphere, 64)
\* and light_count = len(light_list) = min(calls of add_light, 10), and the
\* stored elements are those of the earliest calls, in call order; so a call
\* made at capacity changes neither list and neither count.
C3_BoundedAppend ==
    /\ primitive_count = Len(primitive_list)
    /\ primitive_count = Min(sphere_calls, 64)
    /\ light_count = Len(light_list)
    /\ light_count = Min(light_calls, 10)
    /\ \A k \in 1 .. Len(primitive_list) :
           primitive_list[k] = [position |-> sphere_arg(k).pos,
                                radius |-> sphere_arg(k).rad, m |-> sphere_arg(k).m]
    /\ \A k \in 1 .. Len(light_list) :
           light_list[k] = [position |-> light_arg(k)[1], color |-> light_arg(k)[2]]

\* C3 happens: add_sphere and add_light have both been called at capacity.
C3_Witness == sphere_calls > 64 /\ light_calls > 10 /\ primitive_count = 64 /\ light_count = 10

\* the spheres the ray intersects, by index in primitive_list
Hits(ray) ==
    {i \in 1 .. primitive_count : intersect(primitive_list[i], ray, FZero)[1] # 0}

\* the hit distance of sphere i
HitDist(i, ray) == intersect(primitive_list[i], ray, FZero)[2]

\* the intersected sphere of minimum hit distance, the earliest one on a tie
Nearest(ray) ==
    CHOOSE i \in Hits(ray) :
        \A j \in Hits(ray) :
            \/ FLt(HitDist(i, ray), HitDist(j, ray))
            \/ HitDist(i, ray) = HitDist(j, ray) /\ i <= j

\* C7: trace shades the sphere that has the minimum positive hit distance
\* among all spheres the ray intersects, the earliest in list order on a
\* tie; when no sphere is intersected it returns exactly the background
\* colour (0.02, 0.1, 0.17), whatever the ray, the depth and the lights.
C7_NearestHit ==
    \A f \in Frames : f.pc # "scan" =>
        IF Hits(f.ray) = {}
        THEN /\ f.prim = <<>>
             /\ f.color = v3d_new(FLit(2, 100), FLit(10, 100), FLit(17, 100))
        ELSE /\ f.prim = <<primitive_list[Nearest(f.ray)]>>
             /\ f.dist = HitDist(Nearest(f.ray), f.ray)

\* C8: a call of trace that hit, at depth < 4, a sphere with reflectiveCoeff > 0
\* has made exactly one recursive call when it returns, whatever the number of
\* lights; with reflectiveCoeff <= 0 or at depth 4 it has made none; and a
\* recursive call in progress runs at depth + 1 along R = D - N*2*dot(D,N).
C8_OneReflection ==
    /\ \A k \in 1 .. Len(ret) : ret[k].prim # <<>> =>
           ret[k].calls = IF FGt(ret[k].prim[1].m.reflective, FZero) /\ ret[k].refl_depth < 4
                          THEN 1 ELSE 0
    /\ \A k \in 1 .. Len(stack) - 1 :
        /\ stack[k].calls = 1
        /\ stack[k + 1].refl_depth = stack[k].refl_depth + 1
        /\ stack[k + 1].ray.direction =
               v3d_sub(stack[k].ray.direction,
                       v3d_mul_scalar(stack[k].n,
                                      FMul(v3d_dot_mul(stack[k].ray.direction, stack[k].n),
                                           FInt(2))))

\* what C9 prescribes once the discriminant is positive, for the roots near
\* and far: <<result, distance>>
ByRoots(near, far) ==
    IF FLe(far, FZero) THEN <<0, ProbeDist>>
    ELSE IF FLt(near, FZero) THEN <<-1, far>>
    ELSE <<1, near>>

BySqrt(b, root) == ByRoots(FSub(b, root), FAdd(b, root))

ByDiscriminant(b, discriminant) ==
    IF FLe(discriminant, FZero) THEN <<0, ProbeDist>>
    ELSE BySqrt(b, FSqrt(discriminant))

ByB(r, v, b) ==
    ByDiscriminant(b, FAdd(FSub(FMul(r, r), v3d_dot_mul(v, v)), FMul(b, b)))

\* what C9 prescribes for v = O - C, direction D and radius r
ByV(r, v, D) == ByB(r, v, FNeg(v3d_dot_mul(v, D)))

\* the ray starts outside the sphere and points away from it
OutsideAway(r, v, D) ==
    /\ FGt(v3d_dot_mul(v, v), FMul(r, r))
    /\ FGt(v3d_dot_mul(v, D), FZero)

\* C9: with v = O - C, b = -dot(v, D), discriminant = r^2 - dot(v, v) + b^2,
\* near = b - sqrt(discriminant) and far = b + sqrt(discriminant), intersect
\* reports no intersection (0) and leaves the caller's distance untouched
\* when discriminant <= 0 or far <= 0, an inside hit (-1) with distance far
\* when far > 0 and near < 0, an outside hit (1) with distance near when
\* far > 0 and near >= 0; a ray that starts outside the sphere and points
\* away from it never hits.
C9_Intersect ==
    probe.pc = "done" =>
        /\ <<probe.retval, probe.dist>> =
               ByV(probe.self.radius, v3d_sub(probe.ray.origin, probe.self.position),
                   probe.ray.direction)
        /\ OutsideAway(probe.self.radius,
                       v3d_sub(probe.ray.origin, probe.self.position),
                       probe.ray.direction)
               => probe.retval = 0 /\ probe.dist = ProbeDist

\* C9 happens: intersect has reported an inside hit.
C9_Witness == probe.pc = "done" /\ probe.retval = -1 /\ probe.dist # ProbeDist

\* the reflection vector of C10 as the code has it: R = L - N*2*dot(L,N)
ReflectedLight(L, N) == v3d_sub(L, v3d_mul_scalar(N, FMul(FInt(2), v3d_dot_mul(L, N))))

\* the reflection vector as C10 states it: R = N*2*dot(L,N) - L
MirroredLight(L, N) == v3d_sub(v3d_mul_scalar(N, FMul(FInt(2), v3d_dot_mul(L, N))), L)

Squared(d) == FMul(d, d)

\* dot^8 * specularCoeff * lightColor
SpecularAmount(dot, m, light) ==
    v3d_mul_scalar(light.color, FMul(Squared(Squared(Squared(dot))), m.specular))

\* the unit direction from the hit point of frame f to the light f is at
ToLight(f) == v3d_norm(v3d_sub(light_list[f.i + 1].position, f.pi))

\* the vector the specular block has added for the light f is at
SpecularAdded(f) == IF f.spec = <<>> THEN ZeroVec ELSE f.spec[1]

\* C10 as stated: for each light trace adds the specular contribution
\* dot(rayDirection, R)^8 * specularCoeff * lightColor exactly when
\* dot(rayDirection, R) > 0 for R = N*2*dot(L,N) - L, and nothing otherwise.
C10_MirroredSpecular ==
    \A f \in Frames : f.pc = "reflect" =>
        SpecularAdded(f) =
            IF FGt(v3d_dot_mul(f.ray.direction,
                               MirroredLight(ToLight(f), normal(f.prim[1], f.pi))), FZero)
            THEN SpecularAmount(v3d_dot_mul(f.ray.direction,
                                            MirroredLight(ToLight(f), normal(f.prim[1], f.pi))),
                                f.prim[1].m, light_list[f.i + 1])
            ELSE ZeroVec

\* C10, with the reflection vector the code uses and the test on the
\* coefficient: for each light trace adds a specular contribution exactly
\* when specularCoeff > 0 and dot(rayDirection, R) > 0 for the reflection
\* vector R = L - N*2*dot(L,N); the amount added is
\* dot(rayDirection, R)^8 * specularCoeff * lightColor; otherwise nothing is
\* added.
C10_Specular ==
    \A f \in Frames : f.pc = "reflect" =>
        f.spec =
            IF /\ FGt(f.prim[1].m.specular, FZero)
               /\ FGt(v3d_dot_mul(f.ray.direction,
                                  ReflectedLight(ToLight(f), normal(f.prim[1], f.pi))), FZero)
            THEN <<SpecularAmount(v3d_dot_mul(f.ray.direction,
                                              ReflectedLight(ToLight(f),
                                                             normal(f.prim[1], f.pi))),
                                  f.prim[1].m, light_list[f.i + 1])>>
            ELSE <<>>

\* C10 happens: the specular block has just added a contribution.
C10_Witness ==
    /\ stack # <<>>
    /\ Top.pc = "reflect"
    /\ Top.spec # <<>>
    /\ Top.spec[1] # ZeroVec

====
